---------------------------- MODULE Spec2Model ----------------------------
(***************************************************************************)
(* Model of the Ansible modules of azure_preview_modules:                  *)
(*   library/azure_rm_devtestlabsenvironment.py                            *)
(*   library/azure_rm_devtestlabsglobalschedule.py                         *)
(*   library/azure_rm_devtestlabsuser.py                                   *)
(*   library/azure_rm_mariadbfirewallrule.py                               *)
(* Each module is one invocation of exec_module against a remote resource  *)
(* reached through the SDK client (get / create_or_update / delete).       *)
(***************************************************************************)
EXTENDS Integers, Sequences, FiniteSets, TLC

(***************************************************************************)
(* Python values.  Every value carries its kind in field k, so that the    *)
(* isinstance tests of the code can be evaluated.                          *)
(***************************************************************************)
None == [k |-> "none"]
PyFalse == [k |-> "bool", v |-> FALSE]
PyTrue == [k |-> "bool", v |-> TRUE]
Str(s) == [k |-> "str", v |-> s]
Dict(f) == [k |-> "dict", d |-> f]
List(s) == [k |-> "list", l |-> s]

IsDict(x) == x.k = "dict"
IsList(x) == x.k = "list"

\* Python truth value of x ("if not old_response", "while self.get_x()")
Truthy(x) ==
    CASE x.k = "none" -> FALSE
      [] x.k = "bool" -> x.v
      [] x.k = "str"  -> x.v # ""
      [] x.k = "dict" -> DOMAIN x.d # {}
      [] x.k = "list" -> Len(x.l) > 0

\* d.get(key, {}): a missing key read as an empty mapping
DictGet_emptyDict(x, key) == IF key \in DOMAIN x.d THEN x.d[key] ELSE Dict(<<>>)

\* d.get(key, None) on a dict value
DictGet(x, key) == IF key \in DOMAIN x.d THEN x.d[key] ELSE None

\* new == old of Python for a scalar new: values of different kinds differ
PyEq(a, b) == a.k = b.k /\ a = b

(***************************************************************************)
(* Natural order of the strings of the model (Python compares str          *)
(* lexicographically); StrOrder lists them in that order.                  *)
(***************************************************************************)
StrOrder == <<"", "a", "b", "c", "eastus", "end_ip_address", "id", "id1", "id2", "ip1",
              "ip2", "items", "location", "n1", "n2", "name", "start_ip_address",
              "status", "type", "unique_identifier", "v", "w", "westus", "z">>
Rank(s) == CHOOSE i \in 1..Len(StrOrder) : StrOrder[i] = s


VARIABLES
    module,        \* which of the four template modules runs
    py,            \* major version of the Python interpreter (2 or 3)
    check_mode,    \* self.check_mode (dry run)
    kwargs,        \* the invocation arguments handed to exec_module
    self,          \* attributes of the module object set from kwargs
    to_do,         \* self.to_do
    results,       \* self.results
    old_response,  \* exec_module's local old_response
    response,      \* exec_module's local response
    pc,            \* position of exec_module
    remote,        \* the resource held by the remote system (or Absent)
    deleting,      \* the remote acknowledged a delete it has not completed
    calls,         \* the SDK calls issued so far, in order
    body,          \* self.dtl_environment / self.schedule / self.user
    fail_msg,      \* message handed to self.fail (fail_json), if any
    raised,        \* exception that left exec_module uncaught, if any
    sleeps,        \* number of time.sleep calls of the deletion poll
    cmp,           \* one call of default_compare seen from its caller
    operation,     \* the long-running operation create_or_update started
    history        \* reports of the earlier invocations of this play

vars == <<module, py, check_mode, kwargs, self, to_do, results, old_response,
          response, pc, remote, deleting, calls, body, fail_msg, raised, sleeps, cmp,
          operation, history>>

(***************************************************************************)
(* default_compare(new, old, path).  The result is "True", "False" or the  *)
(* name of the exception the call raises.  path only labels log output     *)
(* and is left out.                                                        *)
(***************************************************************************)
\* keys of the documents of the model, in the order a dict literal / the
\* kwargs loop inserts them
KeyOrder == <<"start_ip_address", "end_ip_address", "id", "name", "location",
              "status", "unique_identifier", "v", "w", "items", "type">>

\* 'sub' in s for the strings of the model
StrContains(s, sub) ==
    \/ s = sub
    \/ sub = "id" /\ s \in {"id1", "id2"}
    \/ sub = "" 

\* outcome of  key in x : "True", "False" or "TypeError"
PyIn(key, x) ==
    CASE x.k = "dict" -> IF key \in DOMAIN x.d THEN "True" ELSE "False"
      [] x.k = "list" -> IF \E i \in 1..Len(x.l) : PyEq(Str(key), x.l[i])
                         THEN "True" ELSE "False"
      [] x.k = "str"  -> IF StrContains(x.v, key) THEN "True" ELSE "False"
      [] OTHER        -> "TypeError"

\* Python 2 orders values of different kinds: None first, then numbers,
\* then by type name (dict < list < str)
KindRank(x) ==
    CASE x.k = "none" -> 0
      [] x.k = "bool" -> 1
      [] x.k = "dict" -> 2
      [] x.k = "list" -> 3
      [] x.k = "str"  -> 4

\* a < b as sorted() evaluates it.  Python 3 reaches it for strings only
\* (SortRaises covers the rest); Python 2 orders every pair of values:
\* dicts by length, then by the smallest key at which they differ
RECURSIVE Py2Less(_, _)
Py2Less(a, b) ==
    IF KindRank(a) # KindRank(b) THEN KindRank(a) < KindRank(b)
    ELSE CASE a.k = "none" -> FALSE
           [] a.k = "bool" -> ~a.v /\ b.v
           [] a.k = "str"  -> Rank(a.v) < Rank(b.v)
           [] a.k = "dict" ->
                LET na == Cardinality(DOMAIN a.d)
                    nb == Cardinality(DOMAIN b.d)
                    diffA == {key \in DOMAIN a.d : key \notin DOMAIN b.d \/ a.d[key] # b.d[key]}
                    diffB == {key \in DOMAIN b.d : key \notin DOMAIN a.d \/ b.d[key] # a.d[key]}
                    MinKey(S) == CHOOSE key \in S : \A other \in S : Rank(key) <= Rank(other)
                IN  IF na # nb THEN na < nb
                    ELSE IF diffA = {} THEN FALSE
                    ELSE IF MinKey(diffA) # MinKey(diffB)
                    THEN Rank(MinKey(diffA)) < Rank(MinKey(diffB))
                    ELSE Py2Less(a.d[MinKey(diffA)], b.d[MinKey(diffB)])
           [] a.k = "list" ->
                LET common == {i \in 1..Len(a.l) : i <= Len(b.l)}
                    diff == {i \in common : a.l[i] # b.l[i]}
                IN  IF diff = {} THEN Len(a.l) < Len(b.l)
                    ELSE LET i == CHOOSE i \in diff : \A j \in diff : i <= j
                         IN  Py2Less(a.l[i], b.l[i])

\* sorted(seq, key=...) for the sort keys r (stable, as list.sort is)
StableSort(seq, r) ==
    LET n == Len(seq)
        Pos(i) == 1 + Cardinality({j \in 1..n : Py2Less(r[j], r[i])
                                                 \/ (~Py2Less(r[i], r[j]) /\ j < i)})
    IN  [p \in 1..n |-> seq[CHOOSE i \in 1..n : Pos(i) = p]]

\* does a < b raise TypeError in Python 3?  Strings and booleans order
\* among themselves, lists by their first differing elements
RECURSIVE Py3Raises(_, _)
Py3Raises(a, b) ==
    IF a.k = "str" /\ b.k = "str" THEN FALSE
    ELSE IF a.k = "bool" /\ b.k = "bool" THEN FALSE
    ELSE IF a.k = "list" /\ b.k = "list"
    THEN LET diff == {i \in 1..Len(a.l) : i <= Len(b.l) /\ a.l[i] # b.l[i]}
         IN  diff # {} /\ LET i == CHOOSE i \in diff : \A j \in diff : i <= j
                          IN  Py3Raises(a.l[i], b.l[i])
    ELSE TRUE

\* does sorting values with these sort keys raise TypeError?  (sorted
\* compares neighbours first; with list keys among three or more
\* elements this takes any incomparable pair to be compared)
SortRaises(keys) ==
    /\ py = 3
    /\ \E i, j \in 1..Len(keys) : i < j /\ Py3Raises(keys[i], keys[j])

\* the key the list branch discovers from the first elements:
\* "id", "name", "" (key = None) or the exception raised while looking
DiscoverKey(new0, old0) ==
    IF "id" \in DOMAIN old0.d /\ PyIn("id", new0) # "False"
    THEN (IF PyIn("id", new0) = "True" THEN "id" ELSE PyIn("id", new0))
    ELSE IF "name" \in DOMAIN old0.d /\ PyIn("name", new0) # "False"
    THEN (IF PyIn("name", new0) = "True" THEN "name" ELSE PyIn("name", new0))
    ELSE ""

\* x.get(key, None) for the discovered key (key = None finds nothing)
SortKey(x, key) == IF key = "" THEN None ELSE DictGet(x, key)

RECURSIVE default_compare(_, _)
default_compare(new, old) ==
    IF new.k = "none" THEN "True"
    ELSE IF IsDict(new) THEN
        IF ~IsDict(old) THEN "False"
        ELSE LET res(i) == default_compare(new.d[KeyOrder[i]], DictGet(old, KeyOrder[i]))
                 bad == {i \in 1..Len(KeyOrder) :
                            KeyOrder[i] \in DOMAIN new.d /\ res(i) # "True"}
             IN  IF bad = {} THEN "True"
                 ELSE res(CHOOSE i \in bad : \A j \in bad : i <= j)
    ELSE IF IsList(new) THEN
        IF ~IsList(old) \/ Len(new.l) # Len(old.l) THEN "False"
        ELSE IF Len(old.l) = 0 THEN "IndexError"
        ELSE LET n == Len(new.l)
                 byKey == IsDict(old.l[1])
                 key == IF byKey THEN DiscoverKey(new.l[1], old.l[1]) ELSE ""
                 newKeys == [i \in 1..n |-> IF byKey THEN SortKey(new.l[i], key) ELSE new.l[i]]
                 oldKeys == [i \in 1..n |-> IF byKey THEN SortKey(old.l[i], key) ELSE old.l[i]]
                 newS == StableSort(new.l, newKeys)
                 oldS == StableSort(old.l, oldKeys)
                 res(i) == default_compare(newS[i], oldS[i])
                 bad == {i \in 1..n : res(i) # "True"}
             IN  IF byKey /\ key = "TypeError" THEN "TypeError"
                 ELSE IF byKey /\ \E i \in 1..n : ~IsDict(new.l[i]) THEN "AttributeError"
                 ELSE IF SortRaises(newKeys) THEN "TypeError"
                 ELSE IF byKey /\ \E i \in 1..n : ~IsDict(old.l[i]) THEN "AttributeError"
                 ELSE IF SortRaises(oldKeys) THEN "TypeError"
                 ELSE IF bad = {} THEN "True"
                 ELSE res(CHOOSE i \in bad : \A j \in bad : i <= j)
    ELSE IF PyEq(new, old) THEN "True" ELSE "False"

\* the two lists a caller handed over, as the caller sees them after the
\* call: sorted() builds new lists and binds them to the local names new
\* and old, nothing is written through a reference
CallerArgs_inplace(new, old) ==
    <<IF IsList(new) THEN List(StableSort(new.l, new.l)) ELSE new,
      IF IsList(old) THEN List(StableSort(old.l, old.l)) ELSE old>>

CallerArgs(new, old) == <<new, old>>

\* no call of default_compare under observation
NoCompare ==
    [pc |-> "idle", new |-> None, old |-> None, result |-> "",
     new_after |-> None, old_after |-> None]


(***************************************************************************)
(* The four template modules.                                              *)
(***************************************************************************)
Modules == {"environment", "globalschedule", "user", "firewallrule"}
DevTestModules == {"environment", "globalschedule", "user"}

\* class Actions
NoAction == 0
Create == 1
Update == 2
Delete == 3

\* bound on the number of time.sleep calls of the deletion poll
MaxPolls == 2

\* keys of module_arg_spec (+ 'tags' where the loop reads kwargs['tags'])
ArgKeys(m) ==
    CASE m = "environment" ->
            {"resource_group", "lab_name", "user_name", "name", "location",
             "deployment_properties", "arm_template_display_name",
             "unique_identifier", "state", "tags"}
      [] m = "globalschedule" ->
            {"resource_group", "name", "location", "status", "task_type",
             "weekly_recurrence", "daily_recurrence", "hourly_recurrence",
             "time_zone_id", "notification_settings", "target_resource_id",
             "unique_identifier", "state", "tags"}
      [] m = "user" ->
            {"resource_group", "lab_name", "name", "location", "identity",
             "secret_store", "unique_identifier", "state", "tags"}
      [] m = "firewallrule" ->
            {"resource_group", "server_name", "name", "start_ip_address",
             "end_ip_address", "state"}

\* the keys for which hasattr(self, key) holds: attributes set by __init__
SelfAttrs(m) ==
    CASE m = "environment"    -> {"resource_group", "lab_name", "user_name", "name", "state"}
      [] m = "globalschedule" -> {"resource_group", "name", "state"}
      [] m = "user"           -> {"resource_group", "lab_name", "name", "state"}
      [] m = "firewallrule"   -> {"resource_group", "server_name", "name",
                                  "start_ip_address", "end_ip_address", "state"}

\* the keys the elif chain of the kwargs loop copies into the request document
BodyKeys(m) ==
    CASE m = "environment"    -> {"location", "deployment_properties",
                                  "arm_template_display_name", "unique_identifier"}
      [] m = "globalschedule" -> {"location", "status", "task_type", "weekly_recurrence",
                                  "daily_recurrence", "hourly_recurrence", "time_zone_id",
                                  "notification_settings", "target_resource_id",
                                  "unique_identifier"}
      [] m = "user"           -> {"location", "identity", "secret_store", "unique_identifier"}
      [] m = "firewallrule"   -> {}

\* _snake_to_camel(snake, True) on the strings of the model
snake_to_camel(snake) ==
    CASE snake = "enabled"  -> "Enabled"
      [] snake = "disabled" -> "Disabled"
      [] OTHER              -> snake

\* the kwargs loop of exec_module: attributes of self
SetAttrs(m, kw) == [a \in SelfAttrs(m) |-> kw[a]]

\* the kwargs loop of exec_module: the request document
BuildBody(m, kw) ==
    LET keys == {key \in (BodyKeys(m) \cap ArgKeys(m)) \ SelfAttrs(m) : kw[key] # None}
    IN  Dict([key \in keys |->
                IF key = "status" THEN Str(snake_to_camel(kw[key].v)) ELSE kw[key]])

\* the identity arguments of every SDK call of module m
\* HandleOf addressing the resource group by the resource's name
HandleOf_swapped(m, s) ==
    [resource_group_name |-> s["name"], name |-> s["resource_group"]]

HandleOf(m, s) ==
    CASE m = "environment" ->
            [resource_group_name |-> s["resource_group"], lab_name |-> s["lab_name"],
             user_name |-> s["user_name"], name |-> s["name"]]
      [] m = "globalschedule" ->
            [resource_group_name |-> s["resource_group"], name |-> s["name"]]
      [] m = "user" ->
            [resource_group_name |-> s["resource_group"], lab_name |-> s["lab_name"],
             name |-> s["name"]]
      [] m = "firewallrule" ->
            [resource_group_name |-> s["resource_group"], server_name |-> s["server_name"],
             firewall_rule_name |-> s["name"]]

\* Payload with end_ip_address left out of the call
Payload_startOnly(m, s, b) ==
    IF m = "firewallrule"
    THEN Dict([key \in {"start_ip_address"} |-> s[key]])
    ELSE b

\* the document arguments of create_or_update
Payload(m, s, b) ==
    IF m = "firewallrule"
    THEN Dict([key \in {"start_ip_address", "end_ip_address"} |-> s[key]])
    ELSE b

(***************************************************************************)
(* The remote system: one resource slot, addressed by the handle.          *)
(***************************************************************************)
Absent == [k |-> "absent"]
Exists(r) == r.k # "absent"

Names == {"n1", "n2"}
Ids == {"id1", "id2"}
Ips == {"ip1", "ip2"}
Locations == {"eastus", "westus"}

\* f overridden by g (dict.update)
Merge(f, g) == [x \in DOMAIN f \cup DOMAIN g |-> IF x \in DOMAIN g THEN g[x] ELSE f[x]]

\* resources module m may find under name n
RemoteDocs(m, n) ==
    LET base == [key \in {"id", "name", "type"} |->
                    CASE key = "id" -> Str("id1") [] key = "name" -> Str(n)
                      [] OTHER -> Str("t")]
    IN  CASE m = "firewallrule" ->
                { Dict(Merge(base, [key \in {"start_ip_address", "end_ip_address"} |->
                                      IF key = "start_ip_address" THEN Str(a) ELSE Str(b)]))
                  : a \in Ips, b \in Ips }
          [] m = "globalschedule" ->
                { Dict(Merge(base, [key \in {"location", "status"} |->
                                      IF key = "location" THEN Str(a) ELSE Str(b)]))
                  : a \in Locations, b \in {"Enabled", "Disabled"} }
          [] OTHER ->
                { Dict(Merge(base, [key \in {"location"} |-> Str(a)])) : a \in Locations }

\* what the remote holds after an accepted create_or_update
RemoteStore(old, h, payload, newid) ==
    LET given == {key \in DOMAIN payload.d : payload.d[key] # None}
        name == IF "name" \in DOMAIN h THEN h.name ELSE h.firewall_rule_name
        base == IF Exists(old) THEN old.d
                ELSE [key \in {"id", "name", "type"} |->
                        CASE key = "id" -> Str(newid) [] key = "name" -> name
                          [] OTHER -> Str("t")]
    IN  Dict(Merge(base, [key \in given |-> payload.d[key]]))

\* what mgmt_client.<ops>.get can do in the current remote state
GetOutcomes ==
    (IF Exists(remote) THEN {"found"} ELSE {"not_found"}) \cup {"cloud_error", "other_error"}
MutateOutcomes == {"ok", "cloud_error", "other_error"}
\* create_or_update may also hand back the poller of an operation the
\* remote has accepted and not finished
CreateOutcomes == MutateOutcomes \cup {"pending"}

\* no long-running operation is under way
NoOperation == [state |-> "none", target |-> None, result |-> None]

\* str(exc) of a CloudError raised for resource name n
ExcTexts(n) == { <<"InternalServerError">>, <<"Conflict", n>> }

(***************************************************************************)
(* The module's own functions.                                             *)
(***************************************************************************)
\* get_environment / get_globalschedule / get_user / get_firewallrule:
\* the value returned when the SDK get ends with outcome o
\* (every CloudError is caught; found stays False)
get_instance(o) == IF o = "found" THEN remote ELSE PyFalse

\* format_item handing back every field of d
format_item_echo(m, d) == d.d

\* format_item(d)
format_item(m, d) ==
    IF m = "globalschedule"
    THEN [key \in {"id", "status"} |-> DictGet(d, key)]
    ELSE [key \in {"id"} |-> DictGet(d, key)]

\* CompareOutcome comparing the attributes directly, None included
CompareOutcome_strict(m, s, old) ==
    IF m = "firewallrule"
    THEN (IF \A key \in {"start_ip_address", "end_ip_address"} : PyEq(s[key], DictGet(old, key))
          THEN "True" ELSE "False")
    ELSE "AttributeError"

\* the first argument of the default_compare call of exec_module: the
\* firewall rule module builds it from its attributes; the DevTest Labs
\* modules read self.parameters, an attribute no code assigns
CompareOutcome(m, s, old) ==
    IF m = "firewallrule"
    THEN default_compare(Dict([key \in {"start_ip_address", "end_ip_address"} |-> s[key]]), old)
    ELSE "AttributeError"

\* Decide with the test of the not-found branch inverted
Decide_inverted(m, s, old) ==
    IF ~Truthy(old)
    THEN [to_do |-> IF s["state"] # Str("absent") THEN NoAction ELSE Create, raised |-> ""]
    ELSE IF s["state"] = Str("absent")
    THEN [to_do |-> Delete, raised |-> ""]
    ELSE LET c == CompareOutcome(m, s, old)
         IN  IF c = "True" THEN [to_do |-> NoAction, raised |-> ""]
             ELSE IF c = "False" THEN [to_do |-> Update, raised |-> ""]
             ELSE [to_do |-> NoAction, raised |-> c]

\* the decision block of exec_module: [to_do, raised]
Decide(m, s, old) ==
    IF ~Truthy(old)
    THEN [to_do |-> IF s["state"] = Str("absent") THEN NoAction ELSE Create, raised |-> ""]
    ELSE IF s["state"] = Str("absent")
    THEN [to_do |-> Delete, raised |-> ""]
    ELSE IF s["state"] = Str("present")
    THEN LET c == CompareOutcome(m, s, old)
         IN  IF c = "True" THEN [to_do |-> NoAction, raised |-> ""]
             ELSE IF c = "False" THEN [to_do |-> Update, raised |-> ""]
             ELSE [to_do |-> NoAction, raised |-> c]
    ELSE [to_do |-> NoAction, raised |-> ""]

\* the tail of exec_module: if self.state == 'present': results.update(format_item(response))
Finish(m, s, res, resp) ==
    IF s["state"] = Str("present") THEN Merge(res, format_item(m, resp)) ELSE res

KindName(m) ==
    CASE m = "environment" -> "Environment" [] m = "globalschedule" -> "Global Schedule"
      [] m = "user" -> "User" [] m = "firewallrule" -> "Firewall Rule"

\* the message of self.fail in create_update_x (verb "creating") and
\* delete_x (verb "deleting"): "Error <verb> the <Kind> instance: <str(exc)>"
ErrorMessage(verb, m, text) == <<"Error", verb, "the", KindName(m), "instance:">> \o text

\* record of one SDK call: operation, identity arguments, document
\* arguments, how it ended and what it returned
Call(op, h, payload, o, ret) ==
    [op |-> op, handle |-> h, payload |-> payload, outcome |-> o, ret |-> ret]

\* check_mode_results without the assignment to results['changed']
check_mode_results_unset(res) == res

\* what the Create / Update branch returns in check mode
check_mode_results(res) == [res EXCEPT !["changed"] = PyTrue]

(***************************************************************************)
(* State after construction of the module object, for every invocation     *)
(* and every remote state.                                                 *)
(***************************************************************************)
\* the two resource-specific arguments the model varies, per module
FieldA(m) == IF m = "firewallrule" THEN "start_ip_address" ELSE "location"
FieldB(m) ==
    CASE m = "firewallrule" -> "end_ip_address" [] m = "globalschedule" -> "status"
      [] OTHER -> "unique_identifier"
ValuesA(m) == {None} \cup (IF m = "firewallrule" THEN {Str(x) : x \in Ips}
                           ELSE {Str(x) : x \in Locations})
ValuesB(m) ==
    {None} \cup CASE m = "firewallrule" -> {Str(x) : x \in Ips}
                  [] m = "globalschedule" -> {Str("enabled"), Str("disabled")}
                  [] OTHER -> {Str("a")}

MkKwargs(m, n, st, a, b) ==
    [key \in ArgKeys(m) |->
        CASE key = "resource_group" -> Str("rg")
          [] key = "lab_name" -> Str("lab")
          [] key = "user_name" -> Str("usr")
          [] key = "server_name" -> Str("srv")
          [] key = "name" -> Str(n)
          [] key = "state" -> Str(st)
          [] key = FieldA(m) -> a
          [] key = FieldB(m) -> b
          [] OTHER -> None]

Init ==
    /\ module \in Modules
    /\ py \in {2, 3}
    /\ check_mode \in BOOLEAN
    /\ \E n \in Names :
         /\ kwargs \in {MkKwargs(module, n, st, a, b) :
                            st \in {"present", "absent"}, a \in ValuesA(module),
                            b \in ValuesB(module)}
         /\ remote \in {Absent} \cup RemoteDocs(module, n)
    /\ self = [a \in SelfAttrs(module) |-> None]
    /\ body = Dict(<<>>)
    /\ to_do = NoAction
    /\ results = [key \in {"changed"} |-> PyFalse]
    /\ old_response = None
    /\ response = None
    /\ pc = "start"
    /\ deleting = FALSE
    /\ calls = <<>>
    /\ fail_msg = <<>>
    /\ raised = ""
    /\ sleeps = 0
    /\ cmp = NoCompare
    /\ operation = NoOperation
    /\ history = <<>>

(***************************************************************************)
(* exec_module, one action per stretch between two SDK calls.              *)
(***************************************************************************)
\* kwargs loop, initial get_x(), decision
Start ==
    /\ pc = "start"
    /\ self' = SetAttrs(module, kwargs)
    /\ body' = BuildBody(module, kwargs)
    /\ \E o \in GetOutcomes :
         /\ calls' = Append(calls, Call("get", HandleOf(module, self'), None, o,
                                      IF o = "found" THEN remote ELSE None))
         /\ IF o = "other_error"
            THEN /\ raised' = "Exception"
                 /\ pc' = "crashed"
                 /\ UNCHANGED <<old_response, to_do>>
            ELSE LET old == get_instance(o)
                     dec == Decide(module, self', old)
                 IN  /\ old_response' = old
                     /\ to_do' = dec.to_do
                     /\ raised' = dec.raised
                     /\ pc' = IF dec.raised = "" THEN "act" ELSE "crashed"
    /\ UNCHANGED <<module, py, check_mode, kwargs, operation, history, results, response, remote,
                   deleting, fail_msg, sleeps, cmp>>

\* CreateUpdateStep with a CloudError of create_or_update swallowed and the
\* branch entered again
CreateUpdateStep_retry ==
    /\ pc = "act"
    /\ to_do \in {Create, Update}
    /\ IF check_mode
       THEN /\ results' = check_mode_results(results)
            /\ pc' = "done"
            /\ UNCHANGED <<response, remote, deleting, calls, fail_msg, raised, operation>>
       ELSE \E o \in CreateOutcomes, newid \in Ids, text \in ExcTexts(self["name"].v) :
            LET h == HandleOf(module, self)
                payload == Payload(module, self, body)
                stored == RemoteStore(remote, h, payload, newid)
            IN  /\ calls' = Append(calls, Call("create_or_update", h, payload, o,
                                          IF o = "ok" THEN stored ELSE None))
                /\ CASE o = "ok" ->
                          /\ remote' = stored
                          /\ deleting' = FALSE
                          /\ response' = stored
                          /\ results' = Finish(module, self,
                                               [results EXCEPT !["changed"] = PyTrue], stored)
                          /\ pc' = "done"
                          /\ UNCHANGED <<fail_msg, raised, operation>>
                     [] o = "pending" ->
                          /\ operation' = [state |-> "pending", target |-> stored,
                                           result |-> None]
                          /\ pc' = "await"
                          /\ UNCHANGED <<response, remote, deleting, results, fail_msg,
                                         raised>>
                     [] o = "cloud_error" ->
                          /\ fail_msg' = ErrorMessage("creating", module, text)
                          /\ pc' = "act"
                          /\ UNCHANGED <<response, remote, deleting, results, raised,
                                         operation>>
                     [] o = "other_error" ->
                          /\ raised' = "Exception"
                          /\ pc' = "crashed"
                          /\ UNCHANGED <<response, remote, deleting, results, fail_msg,
                                         operation>>
    /\ UNCHANGED <<module, py, check_mode, kwargs, history, self, body, to_do,
                   old_response, sleeps, cmp>>

\* the Create / Update branch up to the return of create_or_update
CreateUpdateStep ==
    /\ pc = "act"
    /\ to_do \in {Create, Update}
    /\ IF check_mode
       THEN /\ results' = check_mode_results(results)
            /\ pc' = "done"
            /\ UNCHANGED <<response, remote, deleting, calls, fail_msg, raised, operation>>
       ELSE \E o \in CreateOutcomes, newid \in Ids, text \in ExcTexts(self["name"].v) :
            LET h == HandleOf(module, self)
                payload == Payload(module, self, body)
                stored == RemoteStore(remote, h, payload, newid)
            IN  /\ calls' = Append(calls, Call("create_or_update", h, payload, o,
                                          IF o = "ok" THEN stored ELSE None))
                /\ CASE o = "ok" ->
                          /\ remote' = stored
                          /\ deleting' = FALSE
                          /\ response' = stored
                          /\ results' = Finish(module, self,
                                               [results EXCEPT !["changed"] = PyTrue], stored)
                          /\ pc' = "done"
                          /\ UNCHANGED <<fail_msg, raised, operation>>
                     [] o = "pending" ->
                          /\ operation' = [state |-> "pending", target |-> stored,
                                           result |-> None]
                          /\ pc' = "await"
                          /\ UNCHANGED <<response, remote, deleting, results, fail_msg,
                                         raised>>
                     [] o = "cloud_error" ->
                          /\ fail_msg' = ErrorMessage("creating", module, text)
                          /\ pc' = "failed"
                          /\ UNCHANGED <<response, remote, deleting, results, raised,
                                         operation>>
                     [] o = "other_error" ->
                          /\ raised' = "Exception"
                          /\ pc' = "crashed"
                          /\ UNCHANGED <<response, remote, deleting, results, fail_msg,
                                         operation>>
    /\ UNCHANGED <<module, py, check_mode, kwargs, history, self, body, to_do,
                   old_response, sleeps, cmp>>

\* AzureRMModuleBase.get_poller_result(poller): queries the status of the
\* operation until it is terminal (succeeded / failed), then returns its
\* result or raises
get_poller_result(op) ==
    [returns |-> op.state \in {"succeeded", "failed"},
     raises |-> op.state = "failed",
     value |-> op.result]

\* AwaitPoller without lines 262-263: the response is taken as it came
\* back from create_or_update, whatever the state of the operation
AwaitPoller_noWait ==
    /\ pc = "await"
    /\ response' = operation.target
    /\ results' = Finish(module, self, [results EXCEPT !["changed"] = PyTrue],
                         operation.target)
    /\ pc' = "done"
    /\ calls' = [calls EXCEPT ![Len(calls)].outcome = "ok",
                              ![Len(calls)].ret = operation.target]
    /\ UNCHANGED <<module, py, check_mode, kwargs, operation, history, self, body, to_do,
                   old_response, remote, deleting, fail_msg, raised, sleeps, cmp>>

\* the rest of create_update_x and of the Create / Update branch when the
\* response is a poller: self.get_poller_result(response) comes back once
\* the operation is terminal, with its result, which becomes the response;
\* a CloudError of the operation goes to self.fail
AwaitPoller ==
    /\ pc = "await"
    /\ get_poller_result(operation).returns
    /\ \E text \in ExcTexts(self["name"].v) :
         IF get_poller_result(operation).raises
         THEN /\ fail_msg' = ErrorMessage("creating", module, text)
              /\ pc' = "failed"
              /\ calls' = [calls EXCEPT ![Len(calls)].outcome = "cloud_error"]
              /\ UNCHANGED <<response, results>>
         ELSE /\ response' = get_poller_result(operation).value
              /\ results' = Finish(module, self, [results EXCEPT !["changed"] = PyTrue],
                                   response')
              /\ pc' = "done"
              /\ calls' = [calls EXCEPT ![Len(calls)].outcome = "ok",
                                        ![Len(calls)].ret = response']
              /\ UNCHANGED fail_msg
    /\ UNCHANGED <<module, py, check_mode, kwargs, operation, history, self, body, to_do,
                   old_response, remote, deleting, raised, sleeps, cmp>>

\* the Delete branch up to the delete call
DeleteStep ==
    /\ pc = "act"
    /\ to_do = Delete
    /\ results' = [results EXCEPT !["changed"] = PyTrue]
    /\ IF check_mode
       THEN /\ pc' = "done"
            /\ UNCHANGED <<deleting, calls, fail_msg, raised>>
       ELSE \E o \in MutateOutcomes, text \in ExcTexts(self["name"].v) :
            /\ calls' = Append(calls, Call("delete", HandleOf(module, self), None, o, None))
            /\ CASE o = "ok" ->
                      /\ deleting' = TRUE
                      /\ pc' = "poll"
                      /\ UNCHANGED <<fail_msg, raised>>
                 [] o = "cloud_error" ->
                      /\ fail_msg' = ErrorMessage("deleting", module, text)
                      /\ pc' = "failed"
                      /\ UNCHANGED <<deleting, raised>>
                 [] o = "other_error" ->
                      /\ raised' = "Exception"
                      /\ pc' = "crashed"
                      /\ UNCHANGED <<deleting, fail_msg>>
    /\ UNCHANGED <<module, py, check_mode, kwargs, operation, history,
                   self, body, to_do, old_response,
                   response, remote, sleeps, cmp>>

\* one round of  while self.get_x(): time.sleep(20)  and, when the loop
\* ends, the tail of exec_module
PollStep ==
    /\ pc = "poll"
    /\ \E o \in GetOutcomes :
         /\ calls' = Append(calls, Call("get", HandleOf(module, self), None, o,
                                      IF o = "found" THEN remote ELSE None))
         /\ IF o = "other_error"
            THEN /\ raised' = "Exception"
                 /\ pc' = "crashed"
                 /\ UNCHANGED <<results, sleeps>>
            ELSE IF Truthy(get_instance(o))
            THEN /\ sleeps < MaxPolls
                 /\ sleeps' = sleeps + 1
                 /\ pc' = "poll"
                 /\ UNCHANGED <<results, raised>>
            ELSE /\ results' = Finish(module, self, results, response)
                 /\ pc' = "done"
                 /\ UNCHANGED <<raised, sleeps>>
    /\ UNCHANGED <<module, py, check_mode, kwargs, operation, history,
                   self, body, to_do, old_response,
                   response, remote, deleting, fail_msg, cmp>>

\* the branch taken when nothing is to be done
UnchangedStep ==
    /\ pc = "act"
    /\ to_do = NoAction
    /\ response' = old_response
    /\ results' = Finish(module, self, [results EXCEPT !["changed"] = PyFalse], old_response)
    /\ pc' = "done"
    /\ UNCHANGED <<module, py, check_mode, kwargs, operation, history,
                   self, body, to_do, old_response,
                   remote, deleting, calls, fail_msg, raised, sleeps, cmp>>

\* the remote system brings the operation it accepted to a terminal state
OperationCompletes ==
    /\ operation.state = "pending"
    /\ \/ /\ operation' = [operation EXCEPT !.state = "succeeded", !.result = operation.target]
          /\ remote' = operation.target
          /\ deleting' = FALSE
       \/ /\ operation' = [operation EXCEPT !.state = "failed"]
          /\ UNCHANGED <<remote, deleting>>
    /\ UNCHANGED <<module, py, check_mode, kwargs, history, self, body, to_do, results,
                   old_response, response, pc, calls, fail_msg, raised, sleeps, cmp>>

\* the remote system completes a deletion it acknowledged
RemoteCompletesDelete ==
    /\ deleting
    /\ Exists(remote)
    /\ remote' = Absent
    /\ deleting' = FALSE
    /\ UNCHANGED <<module, py, check_mode, kwargs, operation, history, self, body, to_do, results,
                   old_response, response, pc, calls, fail_msg, raised, sleeps, cmp>>

Next ==
    \/ Start
    \/ CreateUpdateStep
    \/ DeleteStep
    \/ PollStep
    \/ UnchangedStep
    \/ RemoteCompletesDelete
    \/ AwaitPoller
    \/ OperationCompletes

Spec == Init /\ [][Next]_vars

(***************************************************************************)
(* Properties of the reconciliation driver.                                *)
(***************************************************************************)
CountOp(op) == Cardinality({i \in DOMAIN calls : calls[i].op = op})
Looked == Len(calls) >= 1
InitialGet == calls[1]
LastCall == calls[Len(calls)]
\* the decision block has run to its end (an exception raised before the
\* decision leaves the invocation crashed with the initial get as only call)
Decided == pc \in {"act", "poll", "await", "done", "failed"} \/ (pc = "crashed" /\ Len(calls) >= 2)
TargetState == kwargs["state"].v
Changed == results["changed"].v

\* C1: present + initial get not found + not check mode: the decision is
\* Create, create_or_update is called once (never twice), and a finished
\* invocation reports changed=true and the id of the create_or_update response
C1_CreateWhenAbsent ==
    (Looked /\ ~check_mode /\ TargetState = "present" /\ InitialGet.outcome = "not_found")
    => /\ Decided /\ to_do = Create
       /\ CountOp("create_or_update") <= 1 /\ CountOp("delete") = 0
       /\ pc = "done" =>
            /\ CountOp("create_or_update") = 1
            /\ Changed = TRUE
            /\ "id" \in DOMAIN results
            /\ LastCall.op = "create_or_update"
            /\ results["id"] = DictGet(LastCall.ret, "id")

C1_Witness ==
    /\ pc = "done" /\ ~check_mode /\ TargetState = "present"
    /\ InitialGet.outcome = "not_found"
    /\ module = "environment"
    /\ results["id"] = Str("id2")

\* C2: absent + initial get not found: the decision is NoAction, the
\* invocation ends with changed=false, and no create_or_update or delete
\* call is ever issued
C2_NoActionWhenAbsent ==
    (Looked /\ TargetState = "absent" /\ InitialGet.outcome = "not_found")
    => /\ pc \in {"act", "done"} /\ to_do = NoAction
       /\ CountOp("create_or_update") = 0 /\ CountOp("delete") = 0
       /\ pc = "done" => Changed = FALSE

C2_Witness ==
    /\ pc = "done" /\ TargetState = "absent" /\ InitialGet.outcome = "not_found"
    /\ module = "user" /\ Changed = FALSE /\ Len(calls) = 1

\* C3: absent + resource exists + not check mode: the decision is Delete,
\* delete is called once, and the invocation returns (changed=true, no
\* resource state) only after a get issued after the delete has reported
\* the resource as not found
C3_DeleteThenPollUntilNotFound ==
    (Looked /\ ~check_mode /\ TargetState = "absent" /\ InitialGet.outcome = "found")
    => /\ Decided /\ to_do = Delete
       /\ CountOp("delete") <= 1 /\ CountOp("create_or_update") = 0
       /\ pc = "done" =>
            /\ CountOp("delete") = 1
            /\ Changed = TRUE
            /\ "id" \notin DOMAIN results
            /\ calls[2].op = "delete"
            /\ Len(calls) >= 3
            /\ LastCall.op = "get" /\ LastCall.outcome = "not_found"

\* firewall rule: every specified desired address equals the fetched one
AddressesMatch(fetched) ==
    \A key \in {"start_ip_address", "end_ip_address"} :
        kwargs[key] = None \/ kwargs[key] = DictGet(fetched, key)

\* C4: firewall rule, present, rule exists, every desired address equal to
\* the fetched one or unspecified: NoAction, changed=false, no mutating
\* call, and the id of the fetched state is returned
C4_FirewallNoActionWhenMatching ==
    (Looked /\ module = "firewallrule" /\ TargetState = "present"
       /\ InitialGet.outcome = "found" /\ AddressesMatch(InitialGet.ret))
    => /\ pc \in {"act", "done"} /\ to_do = NoAction
       /\ CountOp("create_or_update") = 0 /\ CountOp("delete") = 0
       /\ pc = "done" =>
            /\ Changed = FALSE
            /\ "id" \in DOMAIN results
            /\ results["id"] = DictGet(InitialGet.ret, "id")

C4_Witness ==
    /\ pc = "done" /\ module = "firewallrule" /\ TargetState = "present"
    /\ InitialGet.outcome = "found" /\ AddressesMatch(InitialGet.ret)
    /\ kwargs["start_ip_address"] = None /\ kwargs["end_ip_address"] = Str("ip2")
    /\ results["id"] = Str("id1")

\* C5: firewall rule, present, rule exists, a specified desired address
\* differs, not check mode: Update, create_or_update called once (never
\* twice) with both desired addresses, changed=true on return
C5_FirewallUpdateWhenDiffering ==
    (Looked /\ module = "firewallrule" /\ ~check_mode /\ TargetState = "present"
       /\ InitialGet.outcome = "found" /\ ~AddressesMatch(InitialGet.ret))
    => /\ Decided /\ to_do = Update
       /\ CountOp("create_or_update") <= 1 /\ CountOp("delete") = 0
       /\ pc \in {"done", "failed"} =>
            /\ CountOp("create_or_update") = 1
            /\ LastCall.op = "create_or_update"
            /\ LastCall.payload =
                 Dict([key \in {"start_ip_address", "end_ip_address"} |-> kwargs[key]])
       /\ pc = "done" => Changed = TRUE

C5_Witness ==
    /\ pc = "done" /\ module = "firewallrule" /\ ~check_mode /\ TargetState = "present"
    /\ InitialGet.outcome = "found" /\ ~AddressesMatch(InitialGet.ret)
    /\ kwargs["end_ip_address"] = None
    /\ CountOp("create_or_update") = 1

\* the changed flag the transition table gives for the looked-up state and
\* the arguments; check_mode does not occur in it
ExpectedChanged ==
    IF TargetState = "absent" THEN Truthy(old_response)
    ELSE \/ ~Truthy(old_response)
         \/ module = "firewallrule" /\ ~AddressesMatch(old_response)

\* C6: a check-mode invocation reports the changed flag a non-check-mode
\* invocation reports from the same looked-up state and arguments, and
\* issues neither create_or_update nor delete
C6_CheckModeSameChanged ==
    /\ pc = "done" => Changed = ExpectedChanged
    /\ check_mode => CountOp("create_or_update") = 0 /\ CountOp("delete") = 0

C6_Witness ==
    /\ pc = "done" /\ check_mode /\ Changed = TRUE /\ to_do = Update
    /\ Exists(remote) /\ remote = old_response

\* C7: DevTest Labs modules, present, resource exists: the decision is
\* Update iff default_compare(request document, fetched state) is false and
\* NoAction iff it is true
C7_DevTestDecisionByCompare ==
    (Looked /\ module \in DevTestModules /\ TargetState = "present"
       /\ InitialGet.outcome = "found")
    => /\ Decided
       /\ to_do = IF default_compare(body, InitialGet.ret) = "True" THEN NoAction ELSE Update

\* C8: only a not-found get makes the resource count as absent; a get that
\* ends with another CloudError (auth, server fault) is re-raised
C8_TransientGetReraised ==
    /\ (Looked /\ pc # "crashed" /\ ~Truthy(old_response)) => InitialGet.outcome = "not_found"
    /\ \A i \in DOMAIN calls :
         (calls[i].op = "get" /\ calls[i].outcome \in {"cloud_error", "other_error"})
         => pc = "crashed" /\ i = Len(calls)

\* the word of a failure message that names the attempted operation
OperationWord == CASE to_do = Create -> "creating" [] to_do = Update -> "updating"
                   [] to_do = Delete -> "deleting" [] OTHER -> "none"
Tokens(msg) == {msg[i] : i \in DOMAIN msg}

\* C9: a fault of create_or_update or delete aborts the invocation with a
\* failure whose message names the resource and the attempted operation
C9_MutationFaultMessage ==
    (Looked /\ LastCall.op \in {"create_or_update", "delete"}
     /\ LastCall.outcome \in {"cloud_error", "other_error"})
    => /\ pc \in {"failed", "crashed"}
       /\ pc = "failed" =>
            /\ self["name"].v \in Tokens(fail_msg)
            /\ OperationWord \in Tokens(fail_msg)

\* C10: every successful invocation returns both changed and id
C10_ReportHasChangedAndId ==
    pc = "done" => {"changed", "id"} \subseteq DOMAIN results


\* the attributes that address the resource, and the SDK parameter each one
\* is passed as
IdentityKeys(m) == SelfAttrs(m) \ {"state", "start_ip_address", "end_ip_address"}
ParamOf(m, a) ==
    CASE a = "resource_group" -> "resource_group_name"
      [] a = "name" /\ m = "firewallrule" -> "firewall_rule_name"
      [] OTHER -> a

\* C19: the identity tuple (resource group, parent names, resource name) is
\* taken once from the invocation arguments and stays as it is: every get,
\* create_or_update and delete call of the invocation addresses that tuple
C19_IdentityFixed ==
    /\ pc # "start" => \A a \in IdentityKeys(module) : self[a] = kwargs[a]
    /\ \A i \in DOMAIN calls :
         /\ DOMAIN calls[i].handle = {ParamOf(module, a) : a \in IdentityKeys(module)}
         /\ \A a \in IdentityKeys(module) :
              calls[i].handle[ParamOf(module, a)] = kwargs[a]

C19_Witness ==
    /\ module \in {"environment", "firewallrule"}
    /\ \E i, j \in DOMAIN calls : i < j /\ calls[i].op = "delete" /\ calls[j].op = "get"
    /\ \E i \in DOMAIN calls : calls[i].op = "get" /\ i = 1
    /\ pc = "done"

(***************************************************************************)
(* default_compare called on its own: a caller hands over a desired and an *)
(* actual document, the function returns or raises.                        *)
(***************************************************************************)
MaxLen == 2

\* elements of the sequences compared
Elems ==
    {Str("a"), Str("b"),
     Dict([id |-> Str("a"), v |-> Str("a")]), Dict([id |-> Str("b"), v |-> Str("b")]),
     Dict([id |-> Str("a"), name |-> Str("a")]), Dict([name |-> Str("b")]),
     Dict([v |-> Str("a")]), Dict([v |-> Str("b")])}

Lists == {List(q) : q \in UNION {[1..n -> Elems] : n \in 0..MaxLen}}

\* a sequence that mixes a scalar with mappings
MixedLists == {List(<<Str("a"), Dict([v |-> Str("a")]), Dict([v |-> Str("b")])>>)}

Scalars == {None, Str("a"), Str("b")}

\* mappings all of whose fields are null, at one and at two levels
NullDocs ==
    {Dict([v |-> None]), Dict([items |-> Dict([v |-> None])]),
     Dict([v |-> None, items |-> Dict([v |-> None])])}

\* mappings holding scalars, mappings and sequences
PlainDocs ==
    {Dict([v |-> Str("a")]), Dict([items |-> Str("a")]),
     Dict([items |-> Dict([v |-> Str("a")])]),
     Dict([v |-> Str("a"), items |-> Dict([v |-> Str("b")])]),
     Dict([v |-> Str("a"), items |-> Dict([v |-> Str("b"), w |-> Str("a")])])}

\* mappings holding a sequence
Nested ==
    {Dict([items |-> q]) : q \in MixedLists \cup {x \in Lists : Len(x.l) <= 1}}

Docs == Scalars \cup NullDocs \cup PlainDocs \cup Nested \cup Lists \cup MixedLists

CmpInit ==
    /\ py \in {2, 3}
    /\ cmp \in {[pc |-> "call", new |-> n, old |-> o, result |-> "",
                 new_after |-> n, old_after |-> o] : n \in Docs, o \in Docs}
    /\ module = "environment"
    /\ check_mode = FALSE
    /\ kwargs = MkKwargs(module, "n1", "present", None, None)
    /\ remote = Absent
    /\ self = [a \in SelfAttrs(module) |-> None]
    /\ body = Dict(<<>>)
    /\ to_do = NoAction
    /\ results = [key \in {"changed"} |-> PyFalse]
    /\ old_response = None
    /\ response = None
    /\ pc = "start"
    /\ deleting = FALSE
    /\ calls = <<>>
    /\ fail_msg = <<>>
    /\ raised = ""
    /\ sleeps = 0
    /\ operation = NoOperation
    /\ history = <<>>

\* default_compare(new, old, '') runs to its return or to the exception
CompareCall ==
    /\ cmp.pc = "call"
    /\ cmp' = [cmp EXCEPT !.pc = "returned",
                          !.result = default_compare(cmp.new, cmp.old),
                          !.new_after = CallerArgs(cmp.new, cmp.old)[1],
                          !.old_after = CallerArgs(cmp.new, cmp.old)[2]]
    /\ UNCHANGED <<module, py, check_mode, kwargs, operation, history,
                   self, to_do, results, old_response,
                   response, pc, remote, deleting, calls, body, fail_msg, raised, sleeps>>

CmpNext == CompareCall

CmpSpec == CmpInit /\ [][CmpNext]_vars

Returned == cmp.pc = "returned"
Faults == {"IndexError", "TypeError", "AttributeError"}
\* what a caller sees of a call: the value returned, or a fault
Outcome(r) == IF r \in Faults THEN "fault" ELSE r

(***************************************************************************)
(* Properties of default_compare.                                          *)
(***************************************************************************)
\* every field of the document is null, through every nesting of mappings
RECURSIVE AllNull(_)
AllNull(x) ==
    \/ x.k = "none"
    \/ IsDict(x) /\ \A key \in DOMAIN x.d : AllNull(x.d[key])

\* actual holds a mapping wherever desired holds one
RECURSIVE Shaped(_, _)
Shaped(x, y) ==
    \/ x.k = "none"
    \/ /\ IsDict(x)
       /\ IsDict(y)
       /\ \A key \in DOMAIN x.d :
            Shaped(x.d[key], IF key \in DOMAIN y.d THEN y.d[key] ELSE None)

\* C11 as stated: a desired document all of whose fields are null compares
\* true with every actual value, whatever its kind
C11_AllNullAlwaysTrue ==
    (Returned /\ IsDict(cmp.new) /\ AllNull(cmp.new)) => cmp.result = "True"

\* C11 amended: a desired document all of whose fields are null compares
\* true exactly with the actual values that hold a mapping wherever desired
\* holds one, and false with every other actual value; it never faults
C11_AllNullTrueOnMappings ==
    (Returned /\ IsDict(cmp.new) /\ AllNull(cmp.new)) =>
        cmp.result = (IF Shaped(cmp.new, cmp.old) THEN "True" ELSE "False")

C11_Witness ==
    /\ Returned
    /\ cmp.new = Dict([items |-> Dict([v |-> None])])
    /\ cmp.old = Dict([v |-> Str("a")])
    /\ cmp.result = "False"

\* C12: comparing a document with itself returns true, whatever the
\* document is built from (empty sequences and sequences of mappings
\* without 'id' or 'name' included)
C12_Reflexive ==
    (Returned /\ cmp.new = cmp.old) => cmp.result = "True"

\* the empty sequence, at the top or inside a mapping
HoldsEmptyList(x) ==
    \/ x = List(<<>>)
    \/ IsDict(x) /\ \E key \in DOMAIN x.d : x.d[key] = List(<<>>)

\* C15: an empty desired sequence against an empty actual sequence, at the
\* top or nested inside mappings, compares true without a fault
C15_EmptySequencesCompareTrue ==
    (Returned /\ HoldsEmptyList(cmp.new) /\ cmp.old = cmp.new) =>
        cmp.result = "True"

AllDicts(x) == \A i \in 1..Len(x.l) : IsDict(x.l[i])
AllScalars(x) == \A i \in 1..Len(x.l) : ~IsDict(x.l[i]) /\ ~IsList(x.l[i])

\* the actual value is of another kind than the desired value
KindMismatch(x, y) ==
    \/ IsDict(x) /\ ~IsDict(y)
    \/ IsList(x) /\ ~IsList(y)
    \/ x.k = "str" /\ (IsDict(y) \/ IsList(y))
    \/ /\ IsList(x) /\ IsList(y)
       /\ Len(x.l) = Len(y.l) /\ Len(x.l) >= 1
       /\ \/ AllDicts(x) /\ AllScalars(y)
          \/ AllScalars(x) /\ AllDicts(y)

\* C16: an actual value of another kind than the desired value compares
\* false, and the comparison never faults
C16_KindMismatchIsFalse ==
    (Returned /\ KindMismatch(cmp.new, cmp.old)) => cmp.result = "False"

\* keys and values added to the mappings of an actual document
ExtraKeys == {"id", "name", "w"}
ExtraValues == {Str("a"), Str("z")}

\* the keys desired carries at one level: those of a mapping, or those of
\* the mappings among the elements of a sequence
KeysOf(x) ==
    IF IsDict(x) THEN DOMAIN x.d
    ELSE IF IsList(x)
    THEN UNION {IF IsDict(x.l[i]) THEN DOMAIN x.l[i].d ELSE {} : i \in 1..Len(x.l)}
    ELSE {}

\* the mapping y as it is, or with one key added that desired does not carry
AddOne(forbidden, y) ==
    {y} \cup {Dict([key \in DOMAIN y.d \cup {added} |->
                       IF key = added THEN val ELSE y.d[key]]) :
                 added \in ExtraKeys \ (forbidden \cup DOMAIN y.d), val \in ExtraValues}

\* the actual documents got from y by adding keys, at any mapping level and
\* inside sequence elements, that desired (x) does not carry at that level
RECURSIVE Extensions(_, _)
Extensions(x, y) ==
    IF IsDict(y)
    THEN LET child(key) ==
                 Extensions(IF IsDict(x) /\ key \in DOMAIN x.d THEN x.d[key] ELSE None,
                            y.d[key])
             inner == {f \in [DOMAIN y.d -> UNION {child(key) : key \in DOMAIN y.d}] :
                          \A key \in DOMAIN y.d : f[key] \in child(key)}
         IN  UNION {AddOne(KeysOf(x), Dict(f)) : f \in inner}
    ELSE IF IsList(y)
    THEN LET elem(i) == IF IsDict(y.l[i]) THEN AddOne(KeysOf(x), y.l[i]) ELSE {y.l[i]}
             n == Len(y.l)
         IN  {List(g) : g \in {h \in [1..n -> UNION {elem(i) : i \in 1..n}] :
                                  \A i \in 1..n : h[i] \in elem(i)}}
    ELSE {y}

\* C13: subset semantics.  For a desired mapping and an actual mapping,
\* adding keys to actual that desired does not carry at that level (inside
\* sequence elements too) never changes what default_compare returns
C13_ExtraKeysIgnored ==
    (Returned /\ IsDict(cmp.new) /\ IsDict(cmp.old)) =>
        \A e \in Extensions(cmp.new, cmp.old) :
            Outcome(default_compare(cmp.new, e)) = Outcome(cmp.result)

\* the elements of x are mappings that all carry key, with distinct
\* strings as values
AllCarry(x, key) ==
    /\ \A i \in 1..Len(x.l) :
         IsDict(x.l[i]) /\ key \in DOMAIN x.l[i].d /\ x.l[i].d[key].k = "str"
    /\ \A i, j \in 1..Len(x.l) : i # j => x.l[i].d[key] # x.l[j].d[key]

\* the key that addresses the elements of x: 'id', failing that 'name'
Addressable(x) ==
    IsList(x) /\ Len(x.l) >= 1 /\ (AllCarry(x, "id") \/ AllCarry(x, "name"))
AddressKey(x) == IF AllCarry(x, "id") THEN "id" ELSE "name"

\* the orders a sequence can be given in
Orders(x) ==
    {List([i \in 1..Len(x.l) |-> x.l[p[i]]]) :
        p \in {q \in [1..Len(x.l) -> 1..Len(x.l)] :
                  \A i, j \in 1..Len(x.l) : i # j => q[i] # q[j]}}

\* every desired element compares true with the actual element of its key
MatchPairwise(x, y, key) ==
    /\ Len(x.l) = Len(y.l)
    /\ \A i \in 1..Len(x.l) : \E j \in 1..Len(y.l) :
         /\ y.l[j].d[key] = x.l[i].d[key]
         /\ default_compare(x.l[i], y.l[j]) = "True"

\* C14: for sequences of mappings that all carry an 'id' (failing that, all
\* carry a 'name') with distinct values, the result is the same for every
\* order of either sequence, and it is true whenever the elements match
\* pairwise by that key
C14_PermutationInvariant ==
    (/\ Returned
     /\ Addressable(cmp.new) /\ Addressable(cmp.old)
     /\ AddressKey(cmp.new) = AddressKey(cmp.old)) =>
        /\ \A x \in Orders(cmp.new), y \in Orders(cmp.old) :
             default_compare(x, y) = cmp.result
        /\ MatchPairwise(cmp.new, cmp.old, AddressKey(cmp.new)) => cmp.result = "True"

\* the same holds when the key is uniform: every element carries an 'id',
\* or none carries an 'id' and every element carries a 'name'
UniformKeyPermutationInvariant ==
    (/\ Returned
     /\ Addressable(cmp.new) /\ Addressable(cmp.old)
     /\ AddressKey(cmp.new) = AddressKey(cmp.old)
     /\ \/ AddressKey(cmp.new) = "id"
        \/ "id" \notin KeysOf(cmp.new) \cup KeysOf(cmp.old)) =>
        /\ \A x \in Orders(cmp.new), y \in Orders(cmp.old) :
             default_compare(x, y) = cmp.result
        /\ MatchPairwise(cmp.new, cmp.old, AddressKey(cmp.new)) => cmp.result = "True"

RedisArgKeys ==
    {"resource_group", "name", "location", "sku", "enable_non_ssl_port",
     "configuration", "shard_count", "static_ip", "subnet", "tenant_settings",
     "state", "tags"}

\* sku and subnet arguments an invocation may carry
RedisSkus == {None, Dict([name |-> Str("basic"), size |-> Str("C1")])}
RedisSubnets ==
    {None, Str("/subscriptions/s/resourceGroups/rg/subnets/sn"),
     Dict([name |-> Str("sn"), virtual_network_name |-> Str("vn")]),
     Str("bad"), Dict([name |-> Str("sn")])}

RedisKwargs(n, st, loc, sku, subnet) ==
    [key \in RedisArgKeys |->
        CASE key = "resource_group" -> Str("rg")
          [] key = "name" -> Str(n)
          [] key = "location" -> loc
          [] key = "sku" -> sku
          [] key = "subnet" -> subnet
          [] key = "state" -> Str(st)
          [] key = "enable_non_ssl_port" -> PyFalse
          [] OTHER -> None]

\* the cache the remote may hold under name n
RedisDoc(n, newid) ==
    Dict([id |-> Str(newid), name |-> Str(n), location |-> Str("eastus"),
          host_name |-> Str("h")])

\* rediscache_to_dict builds its dict and ends without a return statement
rediscache_to_dict(redis) == None

RedisHandle(s) == [resource_group_name |-> s["resource_group"], name |-> s["name"]]

RedisInit ==
    /\ module = "rediscache"
    /\ py = 3
    /\ check_mode \in BOOLEAN
    /\ \E n \in Names :
         /\ kwargs \in {RedisKwargs(n, st, loc, sku, subnet) :
                            st \in {"present", "absent"}, loc \in {None, Str("westus")},
                            sku \in RedisSkus, subnet \in RedisSubnets}
         /\ remote \in {Absent, RedisDoc(n, "id1")}
    /\ self = [a \in RedisArgKeys |-> IF a = "enable_non_ssl_port" THEN PyFalse ELSE None]
    /\ body = Dict(<<>>)
    /\ to_do = NoAction
    /\ results = [key \in {"changed", "id"} |-> IF key = "changed" THEN PyFalse ELSE None]
    /\ old_response = None
    /\ response = None
    /\ pc = "start"
    /\ deleting = FALSE
    /\ calls = <<>>
    /\ fail_msg = <<>>
    /\ raised = ""
    /\ sleeps = 0
    /\ cmp = NoCompare
    /\ operation = NoOperation
    /\ history = <<>>

\* the file is loaded and main() builds the module object; exec_module
\* starts with the kwargs loop
RedisLoad ==
    /\ pc = "start"
    /\ \/ /\ raised' = "SyntaxError"
          /\ pc' = "crashed"
          /\ UNCHANGED self
       \/ /\ self' = [a \in RedisArgKeys |-> kwargs[a]]
          /\ pc' = "loaded"
          /\ UNCHANGED raised
    /\ UNCHANGED <<module, py, check_mode, kwargs, operation, history,
                   to_do, results, old_response, response,
                   remote, deleting, calls, body, fail_msg, sleeps, cmp>>

\* get_resource_group, the default location and the subnet check.  For a
\* dict, parse_subnet asks hasattr(self.subnet, 'virtual_network_name'),
\* which no dict answers with True; for anything else it evaluates
\* re.match(self.subnet, string) with no name string in scope
RedisResolve ==
    /\ pc = "loaded"
    /\ \E o \in {"ok", "cloud_error"} :
         /\ calls' = Append(calls, Call("resource_groups.get",
                                      [resource_group_name |-> self["resource_group"]],
                                      None, o, None))
         /\ IF o = "cloud_error"
            THEN /\ fail_msg' = <<"Error", "retrieving", "resource", "group",
                                  self["resource_group"].v>>
                 /\ pc' = "failed"
                 /\ UNCHANGED <<self, raised>>
            ELSE /\ self' = [self EXCEPT !["location"] =
                                IF Truthy(self["location"]) THEN @ ELSE Str("eastus")]
                 /\ IF ~Truthy(self["subnet"])
                    THEN pc' = "get" /\ UNCHANGED <<fail_msg, raised>>
                    ELSE IF IsDict(self["subnet"])
                    THEN /\ fail_msg' = <<"Subnet", "dict", "must", "contains",
                                          "virtual_network_name", "and", "name">>
                         /\ pc' = "failed"
                         /\ UNCHANGED raised
                    ELSE /\ raised' = "NameError"
                         /\ pc' = "crashed"
                         /\ UNCHANGED fail_msg
    /\ UNCHANGED <<module, py, check_mode, kwargs, operation, history,
                   to_do, results, old_response, response,
                   remote, deleting, body, sleeps, cmp>>

\* the decision block of exec_module for what get_rediscache returned:
\* where exec_module goes next, with which to_do, changed, message or fault
RedisDecide(s, old, cm) ==
    LET go(p, t, ch, msg, exc) ==
            [pc |-> p, to_do |-> t, changed |-> ch, fail_msg |-> msg, raised |-> exc]
    IN  IF s["state"] = Str("present")
        THEN IF ~Truthy(old)
             THEN IF ~Truthy(s["sku"])
                  THEN go("failed", Create, PyFalse,
                          <<"Please", "specify", "sku", "to", "creating", "new",
                            "redis", "cache.">>, "")
                  ELSE go("act", Create, PyFalse, <<>>, "")
             \* self.site does not exist
             ELSE go("crashed", NoAction, PyFalse, <<>>, "AttributeError")
        ELSE IF Truthy(old)
             THEN IF cm THEN go("done", NoAction, PyTrue, <<>>, "")
                  \* self.delete_webapp does not exist
                  ELSE go("crashed", NoAction, PyTrue, <<>>, "AttributeError")
             ELSE go("failed", NoAction, PyFalse,
                     <<"Redis", "cache", s["name"].v, "not", "exists.">>, "")

\* get_rediscache and the decision
RedisGet ==
    /\ pc = "get"
    /\ \E o \in GetOutcomes :
         /\ calls' = Append(calls, Call("redis.get", RedisHandle(self), None, o,
                                      IF o = "found" THEN remote ELSE None))
         /\ IF o = "other_error"
            THEN /\ raised' = "Exception"
                 /\ pc' = "crashed"
                 /\ UNCHANGED <<old_response, to_do, results, fail_msg>>
            ELSE LET old == IF o = "found" THEN rediscache_to_dict(remote) ELSE PyFalse
                     dec == RedisDecide(self, old, check_mode)
                 IN  /\ old_response' = old
                     /\ results' = [results EXCEPT
                                       !["id"] = IF Truthy(old) THEN old.d["id"] ELSE @,
                                       !["changed"] = dec.changed]
                     /\ to_do' = dec.to_do
                     /\ fail_msg' = dec.fail_msg
                     /\ raised' = dec.raised
                     /\ pc' = dec.pc
    /\ UNCHANGED <<module, py, check_mode, kwargs, operation, history,
                   self, response, remote, deleting,
                   body, sleeps, cmp>>

\* if to_be_updated: create_rediscache or update_rediscache, then the id
\* and host_name of what it returned
RedisCreateUpdate ==
    /\ pc = "act"
    /\ results' = [results EXCEPT !["changed"] = PyTrue]
    /\ IF check_mode
       THEN /\ pc' = "done"
            /\ UNCHANGED <<response, remote, calls, fail_msg, raised>>
       ELSE \E o \in MutateOutcomes, newid \in Ids, text \in ExcTexts(self["name"].v) :
            LET op == IF to_do = Create THEN "redis.create" ELSE "redis.update"
                stored == RedisDoc(self["name"].v, newid)
            IN  /\ calls' = Append(calls, Call(op, RedisHandle(self), Dict(<<>>), o,
                                          IF o = "ok" THEN stored ELSE None))
                /\ CASE o = "ok" ->
                          \* response['id'] on the None rediscache_to_dict returned
                          /\ remote' = stored
                          /\ response' = rediscache_to_dict(stored)
                          /\ raised' = "TypeError"
                          /\ pc' = "crashed"
                          /\ UNCHANGED fail_msg
                     [] o = "cloud_error" ->
                          /\ fail_msg' = <<"Error",
                                           IF to_do = Create THEN "creating" ELSE "updating",
                                           "the", "redis", "cache", "instance:">> \o text
                          /\ pc' = "failed"
                          /\ UNCHANGED <<response, remote, raised>>
                     [] o = "other_error" ->
                          /\ raised' = "Exception"
                          /\ pc' = "crashed"
                          /\ UNCHANGED <<response, remote, fail_msg>>
    /\ UNCHANGED <<module, py, check_mode, kwargs, operation, history,
                   self, to_do, old_response, deleting,
                   body, sleeps, cmp>>

RedisNext ==
    \/ RedisLoad
    \/ RedisResolve
    \/ RedisGet
    \/ RedisCreateUpdate

RedisSpec == RedisInit /\ [][RedisNext]_vars

\* the get of the cache, once it has been made
RedisLooked == \E i \in DOMAIN calls : calls[i].op = "redis.get"
RedisFirstGet == calls[CHOOSE i \in DOMAIN calls : calls[i].op = "redis.get"]
RedisEnded == pc \in {"done", "failed", "crashed"}
RedisMutations == {i \in DOMAIN calls :
                      calls[i].op \in {"redis.create", "redis.update", "redis.delete"}}

\* C17: with target state absent and no cache found, the Redis module
\* decides NoAction and ends successfully with changed=false, with no
\* failure and no mutating call
C17_RedisAbsentMissingNoAction ==
    (/\ module = "rediscache" /\ kwargs["state"] = Str("absent")
     /\ RedisLooked /\ RedisFirstGet.outcome = "not_found"
     /\ RedisEnded) =>
        /\ pc = "done"
        /\ to_do = NoAction
        /\ results["changed"] = PyFalse
        /\ RedisMutations = {}

\* C18: with target state absent on an existing cache and no dry run, the
\* Redis module calls delete once, polls get until it reports not found
\* and then returns changed=true
C18_RedisDeleteThenPoll ==
    (/\ module = "rediscache" /\ kwargs["state"] = Str("absent") /\ ~check_mode
     /\ RedisLooked /\ RedisFirstGet.outcome = "found"
     /\ RedisEnded) =>
        /\ pc = "done"
        /\ Cardinality({i \in DOMAIN calls : calls[i].op = "redis.delete"}) = 1
        /\ calls[Len(calls)].op = "redis.get" /\ calls[Len(calls)].outcome = "not_found"
        /\ results["changed"] = PyTrue

\* a subnet that is neither a subnet resource id nor a dict with name and
\* virtual_network_name, or no sku although the cache has to be created
RedisMalformed ==
    \/ kwargs["subnet"] \in {Str("bad"), Dict([name |-> Str("sn")])}
    \/ /\ kwargs["sku"] = None
       /\ kwargs["state"] = Str("present")
       /\ ~Exists(remote)

\* C21: the Redis module, once exec_module runs, reports a malformed
\* desired state (subnet, or a missing sku for a cache to be created) as a
\* failure before it attempts any remote call
C21_RedisValidationBeforeRemoteCall ==
    (module = "rediscache" /\ RedisMalformed /\ raised # "SyntaxError") =>
        /\ calls = <<>>
        /\ RedisEnded => pc = "failed"

\* a sequence whose elements are scalars
ScalarSeq(x) == IsList(x) /\ AllScalars(x)

\* C26: a desired sequence of scalars compares true exactly with the actual
\* sequences that hold the same elements as often, in any order; every
\* other actual (another length, empty against non-empty, not a sequence)
\* gives false, and nothing faults
C26_ScalarSequencesAsMultisets ==
    (Returned /\ ScalarSeq(cmp.new)) =>
        cmp.result = (IF IsList(cmp.old) /\ cmp.new \in Orders(cmp.old)
                      THEN "True" ELSE "False")

\* a non-empty sequence of mappings that carry neither 'id' nor 'name'
KeylessSeq(x) ==
    /\ IsList(x) /\ Len(x.l) >= 1 /\ AllDicts(x)
    /\ "id" \notin KeysOf(x) /\ "name" \notin KeysOf(x)

\* C27: sequences of mappings that carry neither 'id' nor 'name' are not
\* reordered: they are compared element by element in the order given, and
\* the comparison completes without a fault whatever their length
C27_KeylessComparedInOrder ==
    (Returned /\ KeylessSeq(cmp.new) /\ KeylessSeq(cmp.old)) =>
        cmp.result = (IF /\ Len(cmp.new.l) = Len(cmp.old.l)
                         /\ \A i \in 1..Len(cmp.new.l) :
                              default_compare(cmp.new.l[i], cmp.old.l[i]) = "True"
                      THEN "True" ELSE "False")

(***************************************************************************)
(* Properties of the Delete path and of the mutating calls.                *)
(***************************************************************************)
\* the delete call of this invocation was acknowledged
DeleteAcknowledged == Len(calls) >= 2 /\ calls[2].op = "delete" /\ calls[2].outcome = "ok"
\* outcomes of the gets issued after the delete
PollOutcomes == {calls[i].outcome : i \in 3..Len(calls)}

\* C22: on the Delete path the driver polls get for as long as get reports
\* the resource present: the invocation returns if and only if some get
\* issued after the delete has reported not found
C22_ReturnsIffPollNotFound ==
    DeleteAcknowledged =>
        /\ pc = "done" <=> "not_found" \in PollOutcomes
        /\ PollOutcomes \subseteq {"found"} => pc = "poll"

Mutations == CountOp("create_or_update") + CountOp("delete")

\* C23: the driver never retries a mutating call: one invocation issues at
\* most one mutating call in total (one create_or_update or one delete,
\* never both, never the same one twice), also when that call faults
C23_AtMostOneMutatingCall ==
    /\ Mutations <= 1
    /\ \A i \in DOMAIN calls :
         (calls[i].op \in {"create_or_update", "delete"}
          /\ calls[i].outcome \in {"cloud_error", "other_error"})
         => i = Len(calls) /\ pc \in {"failed", "crashed"}

\* a create_or_update that faulted and was left as the last call
C23_Witness ==
    /\ Mutations = 1
    /\ LastCall.op = "create_or_update"
    /\ LastCall.outcome = "cloud_error"
    /\ pc = "failed"

\* create_or_update handed back a long-running operation
LongRunning == operation.state # "none"
Terminal == operation.state \in {"succeeded", "failed"}

\* C24: when create_or_update returns a pending long-running operation the
\* driver returns no result (no changed=true, no id) before the operation
\* is terminal; the state it returns is the final result of the operation;
\* an operation that ends failed is surfaced as a failure, never a success
C24_BlocksUntilOperationTerminal ==
    LongRunning =>
        /\ pc \in {"await", "done", "failed"}
        /\ pc # "await" => Terminal
        /\ pc = "await" => results = [key \in {"changed"} |-> PyFalse] /\ response = None
        /\ pc = "done" =>
             /\ operation.state = "succeeded"
             /\ response = operation.result
             /\ response = remote
             /\ results = Merge([key \in {"changed"} |-> PyTrue],
                                format_item(module, operation.result))
        /\ (operation.state = "failed" /\ pc # "await") =>
             /\ pc = "failed"
             /\ fail_msg # <<>>
             /\ results = [key \in {"changed"} |-> PyFalse]

\* an invocation that waited for an operation and returned its result
C24_Witness ==
    /\ LongRunning
    /\ pc = "done"
    /\ operation.state = "succeeded"
    /\ results["id"] = operation.result.d["id"]

\* an invocation whose operation ended failed
C24_WitnessFailed == LongRunning /\ operation.state = "failed" /\ pc = "failed"

\* the fields a report may carry besides 'changed'
Whitelist == IF module = "globalschedule" THEN {"id", "status"} ELSE {"id"}
\* the actual states this invocation has fetched or been returned
SeenStates == {calls[i].ret : i \in DOMAIN calls} \ {None}

\* C25: the report holds, besides 'changed', only the whitelisted
\* projection of the actual state ('id'; 'status' too for the global
\* schedule module), whatever other fields the remote returns
C25_ReportIsWhitelistedProjection ==
    /\ DOMAIN results \subseteq {"changed"} \cup Whitelist
    /\ results["changed"] \in {PyFalse, PyTrue}
    /\ \A key \in DOMAIN results \ {"changed"} :
         \E d \in SeenStates : results[key] = DictGet(d, key)

\* a finished invocation whose report projects a state that carries more
\* fields than the whitelist
C25_Witness ==
    /\ pc = "done"
    /\ module = "globalschedule"
    /\ DOMAIN results = {"changed", "id", "status"}
    /\ IsDict(response)
    /\ {"type", "location", "name"} \subseteq DOMAIN response.d

\* some get of this invocation ended with an error other than not found
GetFaulted == \E i \in DOMAIN calls : calls[i].op = "get" /\ calls[i].outcome = "cloud_error"

\* C28: when a non-dry-run invocation with target state 'absent' returns
\* without failure, the resource does not exist in the remote system at
\* that moment, also when gets fault with transient errors
C28_AbsentReturnMeansGone ==
    (pc = "done" /\ ~check_mode /\ TargetState = "absent") => ~Exists(remote)

\* the same for the invocations whose gets all answered found / not found
C28_NoFaultAbsentReturnMeansGone ==
    (pc = "done" /\ ~check_mode /\ TargetState = "absent" /\ ~GetFaulted) => ~Exists(remote)

(***************************************************************************)
(* The firewall rule module invoked again with the same arguments: a play  *)
(* runs the task a second time right after a run that returned.            *)
(***************************************************************************)
\* number of invocations of one play
MaxRuns == 2

\* main() called again: a new module object is constructed (__init__) for
\* the same arguments; the remote system keeps its state
Reinvoke ==
    /\ pc = "done"
    /\ Len(history) < MaxRuns - 1
    /\ history' = Append(history, [to_do |-> to_do, results |-> results, calls |-> calls])
    /\ self' = [a \in SelfAttrs(module) |-> None]
    /\ body' = Dict(<<>>)
    /\ to_do' = NoAction
    /\ results' = [key \in {"changed"} |-> PyFalse]
    /\ old_response' = None
    /\ response' = None
    /\ pc' = "start"
    /\ calls' = <<>>
    /\ fail_msg' = <<>>
    /\ raised' = ""
    /\ sleeps' = 0
    /\ operation' = NoOperation
    /\ UNCHANGED <<module, py, check_mode, kwargs, remote, deleting, cmp>>

RerunInit == Init /\ module = "firewallrule"

RerunNext == Next \/ Reinvoke

RerunSpec == RerunInit /\ [][RerunNext]_vars

\* this invocation follows one that returned; its report and calls
Reruns == Len(history) >= 1
Previous == history[Len(history)]
PreviousDeleted ==
    \E i \in DOMAIN Previous.calls :
        Previous.calls[i].op = "delete" /\ Previous.calls[i].outcome = "ok"
\* the initial get of this invocation answered found or not found
Answered == Looked /\ InitialGet.outcome \in {"found", "not_found"}

\* C29: the firewall rule module is idempotent across invocations: right
\* after a non-dry-run invocation that returned, an invocation with the
\* same arguments decides NoAction, reports changed=false and issues no
\* mutating call (target 'present'); after a successful delete a second
\* invocation with target 'absent' reports changed=false
C29_FirewallIdempotentAcrossInvocations ==
    (module = "firewallrule" /\ Reruns /\ ~check_mode /\ Answered) =>
        /\ TargetState = "present" =>
             /\ pc \in {"act", "done"} /\ to_do = NoAction
             /\ Mutations = 0
             /\ pc = "done" => Changed = FALSE
        /\ (TargetState = "absent" /\ PreviousDeleted) =>
             /\ pc \in {"act", "done"} /\ to_do = NoAction
             /\ Mutations = 0
             /\ pc = "done" => Changed = FALSE

\* the same when no polling get of the previous invocation faulted
PreviousPollFaulted ==
    \E i \in DOMAIN Previous.calls :
        Previous.calls[i].op = "get" /\ i > 1 /\ Previous.calls[i].outcome = "cloud_error"
C29_IdempotentAfterAnsweredPolls ==
    (Reruns /\ ~PreviousPollFaulted) => C29_FirewallIdempotentAcrossInvocations

\* C30: the SDK calls of one invocation have the shape: one initial get;
\* then nothing, or one create_or_update and no further get (the returned
\* state is the response of create_or_update, not a re-fetch), or one
\* delete followed by one or more gets; no mutating call is issued before
\* the initial get has returned
C30_CallSequenceShape ==
    /\ pc = "start" <=> calls = <<>>
    /\ Looked => InitialGet.op = "get"
    /\ Len(calls) >= 2 =>
         \/ /\ calls[2].op = "create_or_update"
            /\ Len(calls) = 2
            /\ pc = "done" => response = calls[2].ret /\ results["id"] = DictGet(calls[2].ret, "id")
         \/ /\ calls[2].op = "delete"
            /\ \A i \in 3..Len(calls) : calls[i].op = "get"
            /\ pc = "done" => Len(calls) >= 3
            /\ pc = "poll" => calls[2].outcome = "ok"

\* a create_or_update whose response is reported, and nothing after it
C30_Witness ==
    /\ pc = "done"
    /\ Len(calls) = 2
    /\ calls[2].op = "create_or_update"
    /\ InitialGet.outcome = "not_found"
    /\ IsDict(calls[2].ret)
    /\ results["id"] = calls[2].ret.d["id"]

\* a delete followed by two gets
C30_WitnessDelete ==
    /\ pc = "done" /\ Len(calls) = 4 /\ calls[2].op = "delete"
=============================================================================
